---------------------------- MODULE Spec2Model ----------------------------
(***************************************************************************)
(* Model of the buzz-rust distributed query fabric:                        *)
(*   - the fuse query planner (services/fuse/query_planner.rs),            *)
(*   - the hcomb Flight service (services/hcomb/flight_service.rs),        *)
(*   - the hbee service (services/hbee/hbee_service.rs),                   *)
(*   - the Parquet scan operator (execution_plan/s3_parquet.rs),           *)
(*   - the range cache the scan operator reads through (clients).          *)
(* Each component has its own specification over its own variables; the    *)
(* variables of the other components stay at their initial values.         *)
(***************************************************************************)
EXTENDS Integers, Sequences, FiniteSets, TLC

VARIABLES
    \* ---- fuse: QueryPlanner::plan ----
    query_steps,    \* the query_steps argument: a sequence of BuzzStep
    nb_hcomb,       \* the nb_hcomb argument (i16)
    tables,         \* execution_context's table registry: name -> provider
    ppc,            \* position inside plan()
    src_bee_plan,   \* logical plan of the HBee step
    bee_plans,      \* result of split
    hcomb_plan,     \* logical plan of the HComb step
    plan_res,       \* what plan() gave back to its caller
    \* ---- hbee: one partition of ParquetExec::execute ----
    file,           \* what batch_reader.next() yields, in file order
    open_res,       \* outcome of opening the reader in read_file
    wpc,            \* position of the reader worker thread
    exit_reason,    \* why the worker left read_file
    pending,        \* the item the worker is sending
    chan,           \* buffer of the sync_channel
    rx_alive,       \* the ParquetStream (response_rx) has not been dropped
    tx_alive,       \* response_tx has not been dropped
    sent,           \* history: items whose send returned Ok
    recvd,          \* history: items recv returned
    yielded,        \* history: what poll_next returned
    \* ---- hbee: HBeeService::execute_query ----
    hb_args,        \* the arguments: query_id and hcomb address
    hb_env,         \* outcomes of the library calls made by query()
    hb_pc,          \* position inside execute_query / query
    hb_trace,       \* history: the calls made so far, in order
    hb_plan,        \* the plan being executed: stage, cache slot, partitions
    hb_query_res,   \* the result of query()
    hb_collector,   \* what the collector has sent to the hcomb
    hb_ret,         \* what execute_query returned
    \* ---- hcomb: FlightServiceImpl over HCombService ----
    hc_registry,    \* HCombService's registry: query id -> entry
    hc_streams,     \* the DoGet output streams, with their result channels
    hc_uploads,     \* the DoPut requests received so far
    hc_seen,        \* history: per stream, the uploads ended for its query, the
                    \* reason of the first Fail received for it since it was
                    \* opened, and whether a further Fail was received
    hc_resp,        \* the response sent in the latest step, if any
    hc_req,         \* the request whose handler ran in the latest step, if any
    hc_calls,       \* the HCombService calls that handler made in that step
    \* ---- hbee: ParquetExec::try_new ----
    tn_files,       \* the files argument: length and row groups of each file
    tn_projection,  \* the projection argument: None or Some(column indices)
    tn_pc,          \* position inside try_new
    tn_i,           \* the file index of the outer loop (0-based)
    tn_g,           \* the row group index of the inner loop (0-based)
    tn_p,           \* the position in the projection of the innermost loop
    tn_prefetches,  \* history: the prefetch calls made, by file
    tn_res,         \* what try_new returned
    \* ---- hbee: RangeCache ----
    rc_map,         \* the interval map: start, length and state of each range
    rc_log,         \* history: the prefetch and read calls made, in order
    rc_reading,     \* the range of the read that is parked, if any
    rc_res,         \* what the latest read returned
    rc_stats        \* download_count, downloaded_bytes, processed_bytes

plannerVars == <<query_steps, nb_hcomb, tables, ppc, src_bee_plan, bee_plans,
                 hcomb_plan, plan_res>>

pqVars == <<file, open_res, wpc, exit_reason, pending, chan, rx_alive, tx_alive,
            sent, recvd, yielded>>

hbVars == <<hb_args, hb_env, hb_pc, hb_trace, hb_plan, hb_query_res, hb_collector,
            hb_ret>>

hcVars == <<hc_registry, hc_streams, hc_uploads, hc_seen, hc_resp, hc_req, hc_calls>>

tnVars == <<tn_files, tn_projection, tn_pc, tn_i, tn_g, tn_p, tn_prefetches, tn_res>>

rcVars == <<rc_map, rc_log, rc_reading, rc_res, rc_stats>>

vars == <<plannerVars, pqVars, hbVars, hcVars, tnVars, rcVars>>

(***************************************************************************)
(* Bounds of the model.                                                    *)
(***************************************************************************)
MaxSteps == 3       \* longest query_steps vector
MaxFiles == 3       \* most files a catalog splits into
MaxHcomb == 3       \* largest nb_hcomb
MaxDepth == 3       \* deepest SQL plan shape
MaxBatches == 3     \* most record batches in one file
MaxEndPolls == 2    \* polls modelled after the stream has ended
MaxPartitions == 3  \* most partitions of a physical plan
MaxPerPartition == 1 \* most batches in one partition
MaxStreams == 1     \* most DoGet requests accepted by the hcomb
MaxUploads == 2     \* most DoPut requests received by the hcomb
MaxUploadBatches == 1 \* most batches in one DoPut request
MaxExpected == 2    \* largest nb_hbee of a DoGet ticket
MaxTryNewFiles == 2 \* most files given to try_new
MaxCacheOps == 3    \* most prefetch and read calls made on one cache
MaxRowGroups == 2   \* most row groups in one file
NbColumns == 2      \* fields of the schema given to try_new

Min(a, b) == IF a < b THEN a ELSE b

(***************************************************************************)
(* Results: Ok(v), Err(kind) of crate::error::Result, and a panic, which   *)
(* unwinds through the caller and gives it no value at all.                *)
(***************************************************************************)
Ok(v) == [kind |-> "Ok", val |-> v]
Err(e) == [kind |-> "Err", val |-> e]
Panic(m) == [kind |-> "Panic", val |-> m]
NoResult == [kind |-> "None", val |-> ""]

(***************************************************************************)
(* Table providers and logical plans.  A plan node carries its operator,   *)
(* its expressions, its table source (leaves) and its inputs.              *)
(***************************************************************************)
NoSource == [kind |-> "None", id |-> "", n |-> 0]
CatalogTable(name, k) == [kind |-> "CatalogTable", id |-> name, n |-> k]
HBeeTable(name, j) == [kind |-> "HBeeTable", id |-> name, n |-> j]
HCombTable(query_id, nb_hbee) == [kind |-> "HCombTable", id |-> query_id, n |-> nb_hbee]

TableScan(source) ==
    [op |-> "TableScan", exprs |-> <<>>, source |-> source, inputs |-> <<>>]
EmptyRelation ==
    [op |-> "EmptyRelation", exprs |-> <<>>, source |-> NoSource, inputs |-> <<>>]
Node(op, exprs, inputs) ==
    [op |-> op, exprs |-> exprs, source |-> NoSource, inputs |-> inputs]

\* SQL text is kept as the shape of the plan it parses to; a leaf names a table.
TableRef(name) ==
    [op |-> "TableRef", exprs |-> <<>>, source |-> [kind |-> "Name", id |-> name, n |-> 0],
     inputs |-> <<>>]

UnaryOps == {"Projection", "Filter"}
SqlLeaves == {TableRef("test"), EmptyRelation}

RECURSIVE SqlShapes(_)
SqlShapes(d) ==
    IF d = 0 THEN SqlLeaves
    ELSE LET sub == SqlShapes(d - 1) IN
         SqlLeaves
         \cup {Node(op, <<op, d>>, <<t>>) : op \in UnaryOps, t \in sub}
         \cup {Node("Join", <<"on", d>>, <<t, TableRef("test")>>) : t \in sub}

MergeSqls == {Node("Projection", <<"*">>, <<TableRef("mapper")>>),
              Node("Projection", <<"*">>, <<TableRef("test")>>)}

\* ExecutionContext::sql: parse and resolve every table against the registry.
RECURSIVE Resolve(_, _)
Resolve(ctx, shape) ==
    IF shape.op = "TableRef"
    THEN IF shape.source.id \in DOMAIN ctx
         THEN Ok(TableScan(ctx[shape.source.id]))
         ELSE Err("Plan")
    ELSE LET rs == [i \in 1..Len(shape.inputs) |-> Resolve(ctx, shape.inputs[i])] IN
         IF \E i \in 1..Len(rs) : rs[i].kind = "Err"
         THEN Err("Plan")
         ELSE Ok([shape EXCEPT !.inputs = [i \in 1..Len(rs) |-> rs[i].val]])

sql(ctx, text) == Resolve(ctx, text)

\* ExecutionContext::register_table
register_table(ctx, name, provider) ==
    [x \in DOMAIN ctx \cup {name} |-> IF x = name THEN provider ELSE ctx[x]]

\* SplittableTable::split, as the test fixture implements it: one table per file.
catalog_split(catalog) == [j \in 1..catalog.n |-> HBeeTable(catalog.id, j)]

\* QueryPlanner::as_catalog
as_catalog(plan) ==
    IF plan.op = "TableScan" /\ plan.source.kind = "CatalogTable"
    THEN plan.source ELSE NoSource

\* a from_plan that rebuilds the node without its expressions
from_plan_no_exprs(plan, exprs, inputs) == [plan EXCEPT !.exprs = <<>>, !.inputs = inputs]

\* datafusion::optimizer::utils::from_plan
from_plan(plan, exprs, inputs) == [plan EXCEPT !.exprs = exprs, !.inputs = inputs]

\* a split that follows the first input of a multi-input node
RECURSIVE split_first_input(_)
split_first_input(plan) ==
    LET new_inputs == plan.inputs IN
    IF Len(new_inputs) >= 1 THEN
        LET inputs == split_first_input(new_inputs[1])
        IN  Ok([i \in 1..Len(inputs.val) |->
                   from_plan(plan, plan.exprs,
                             <<inputs.val[i]>> \o SubSeq(new_inputs, 2, Len(new_inputs)))])
    ELSE IF as_catalog(plan).kind = "CatalogTable" THEN
        LET items == catalog_split(as_catalog(plan))
        IN  Ok([j \in 1..Len(items) |-> TableScan(items[j])])
    ELSE Ok(<<plan>>)

\* QueryPlanner::split
RECURSIVE split(_)
split(plan) ==
    LET new_inputs == plan.inputs IN
    IF Len(new_inputs) > 1 THEN Err("NotImplemented")
    ELSE IF Len(new_inputs) = 1 THEN
        LET exprs == plan.exprs
            inputs == split(new_inputs[1])
        IN  IF inputs.kind = "Err" THEN inputs
            ELSE Ok([i \in 1..Len(inputs.val) |->
                        from_plan(plan, exprs, <<inputs.val[i]>>)])
    ELSE IF as_catalog(plan).kind = "CatalogTable" THEN
        LET items == catalog_split(as_catalog(plan))
        IN  Ok([j \in 1..Len(items) |-> TableScan(items[j])])
    ELSE Ok(<<plan>>)


\* a plan() that uses every hcomb it is given, however few the hbee plans
used_hcomb_all(nb, len) == IF nb < 0 THEN len ELSE nb

\* std::cmp::min(nb_hcomb as usize, bee_plans.len()).  A negative i16 cast to
\* usize is at least 2^64 - 2^15, above every vector length, so min gives len.
used_hcomb_of(nb, len) == IF nb < 0 THEN len ELSE Min(nb, len)

\* a distribution that fills the first zone only
zone_index_first(i, used_hcomb) == 0

\* a distribution that counts the zones from the last one
zone_index_reversed(i, used_hcomb) == (used_hcomb - 1) - (i % used_hcomb)

\* the zone that receives the i-th (0-based) hbee plan
zone_index(i, used_hcomb) == i % used_hcomb

\* zones[i % used_hcomb].hbee.push(bee_plan), for i = from .. len-1
RECURSIVE push_plans(_, _, _)
push_plans(zones, plans, from) ==
    IF from >= Len(plans) THEN zones
    ELSE LET z == zone_index(from, Len(zones)) + 1 IN
         push_plans([zones EXCEPT ![z].hbee = Append(@, plans[from + 1])],
                    plans, from + 1)

\* lines 70-86 of plan(): init one ZonePlan per used hcomb, then distribute.
distribute(nb, plans, hcomb) ==
    LET used_hcomb == used_hcomb_of(nb, Len(plans))
        zones == [z \in 1..used_hcomb |-> [hbee |-> <<>>, hcomb |-> hcomb]]
    IN  IF used_hcomb = 0 /\ Len(plans) > 0
        THEN Panic("remainder with a divisor of zero")
        ELSE Ok([zones |-> push_plans(zones, plans, 0)])

\* the assert! at the head of plan()
steps_accepted(steps) ==
    /\ Len(steps) = 2
    /\ steps[1].step_type = "HBee"
    /\ steps[2].step_type = "HComb"

QueryId == "mock_query_id"
StepTypes == {"HBee", "HComb"}
StepTypeVectors == UNION {[1..n -> StepTypes] : n \in 0..MaxSteps}
NbHcombValues == (-1)..MaxHcomb
Contexts ==
    {<<>>}
    \cup {[x \in {"test"} |-> CatalogTable("test", k)] : k \in 0..MaxFiles}
    \cup {[x \in {"test"} |-> HCombTable("previous_query", 1)]}

BuzzSteps(types, scan_sql, merge_sql) ==
    [i \in 1..Len(types) |->
        [step_type |-> types[i],
         name |-> IF i = 1 THEN "mapper" ELSE "reducer",
         sql |-> IF i = 1 THEN scan_sql ELSE merge_sql]]

HCombQueryIds == {"q1", "q2"}

\* HCombService::new: nothing registered, nothing received
HCombIdle ==
    /\ hc_registry = <<>>
    /\ hc_streams = <<>>
    /\ hc_uploads = <<>>
    /\ hc_seen = <<>>
    /\ hc_resp = [rpc |-> "", status |-> ""]
    /\ hc_req = [rpc |-> "", type |-> "", query_id |-> "", reason |-> "", n |-> 0,
                 parsed |-> FALSE]
    /\ hc_calls = <<>>

HBeeIdle ==
    /\ hb_args = [query_id |-> "", address |-> ""]
    /\ hb_env = [optimize |-> TRUE, find_table |-> TRUE, create_physical_plan |-> TRUE,
                 partitions |-> <<>>, collect |-> TRUE]
    /\ hb_pc = "idle"
    /\ hb_trace = <<>>
    /\ hb_plan = [stage |-> "logical", cache |-> 0, partitions |-> <<>>]
    /\ hb_query_res = NoResult
    /\ hb_collector = [calls |-> <<>>, put |-> <<>>, fail |-> <<>>]
    /\ hb_ret = NoResult

NoRange == [start |-> 0, len |-> 0]

RangeCacheIdle ==
    /\ rc_map = {}
    /\ rc_log = <<>>
    /\ rc_reading = NoRange
    /\ rc_res = NoResult
    /\ rc_stats = [download_count |-> 0, downloaded_bytes |-> 0,
                   processed_bytes |-> 0]

TryNewIdle ==
    /\ tn_files = <<>>
    /\ tn_projection = [some |-> FALSE, cols |-> <<>>]
    /\ tn_pc = "idle"
    /\ tn_i = 0
    /\ tn_g = 0
    /\ tn_p = 0
    /\ tn_prefetches = {}
    /\ tn_res = NoResult

PqIdle ==
    /\ file = <<>>
    /\ open_res = "ok"
    /\ wpc = "idle"
    /\ exit_reason = ""
    /\ pending = [kind |-> "none", id |-> 0]
    /\ chan = <<>>
    /\ rx_alive = FALSE
    /\ tx_alive = FALSE
    /\ sent = <<>>
    /\ recvd = <<>>
    /\ yielded = <<>>

PlannerIdle ==
    /\ query_steps = <<>>
    /\ nb_hcomb = 0
    /\ tables = <<>>
    /\ ppc = "idle"
    /\ src_bee_plan = EmptyRelation
    /\ bee_plans = <<>>
    /\ hcomb_plan = EmptyRelation
    /\ plan_res = NoResult

PlannerInit ==
    /\ \E types \in StepTypeVectors, s \in SqlShapes(MaxDepth), m \in MergeSqls :
          query_steps = BuzzSteps(types, s, m)
    /\ nb_hcomb \in NbHcombValues
    /\ tables \in Contexts
    /\ ppc = "assert"
    /\ src_bee_plan = EmptyRelation
    /\ bee_plans = <<>>
    /\ hcomb_plan = EmptyRelation
    /\ plan_res = NoResult

\* plan(), lines 46-51
PlanAssert ==
    /\ ppc = "assert"
    /\ IF steps_accepted(query_steps)
       THEN ppc' = "sql_hbee" /\ plan_res' = plan_res
       ELSE ppc' = "done" /\ plan_res' = Panic("assert")
    /\ UNCHANGED <<query_steps, nb_hcomb, tables, src_bee_plan, bee_plans, hcomb_plan>>
    /\ UNCHANGED <<pqVars, hbVars, hcVars, tnVars, rcVars>>

\* a plan() that goes on with an empty relation when the HBee SQL fails
PlanSqlHBeeIgnoreErr ==
    /\ ppc = "sql_hbee"
    /\ LET r == sql(tables, query_steps[1].sql) IN
       /\ ppc' = "split"
       /\ src_bee_plan' = IF r.kind = "Ok" THEN r.val ELSE EmptyRelation
       /\ plan_res' = plan_res
    /\ UNCHANGED <<query_steps, nb_hcomb, tables, bee_plans, hcomb_plan>>
    /\ UNCHANGED <<pqVars, hbVars, hcVars, tnVars, rcVars>>

\* plan(), lines 53-55
PlanSqlHBee ==
    /\ ppc = "sql_hbee"
    /\ LET r == sql(tables, query_steps[1].sql) IN
       IF r.kind = "Ok"
       THEN ppc' = "split" /\ src_bee_plan' = r.val /\ plan_res' = plan_res
       ELSE ppc' = "done" /\ src_bee_plan' = src_bee_plan /\ plan_res' = r
    /\ UNCHANGED <<query_steps, nb_hcomb, tables, bee_plans, hcomb_plan>>
    /\ UNCHANGED <<pqVars, hbVars, hcVars, tnVars, rcVars>>

\* plan(), line 56
PlanSplit ==
    /\ ppc = "split"
    /\ LET r == split(src_bee_plan) IN
       IF r.kind = "Ok"
       THEN ppc' = "register" /\ bee_plans' = r.val /\ plan_res' = plan_res
       ELSE ppc' = "done" /\ bee_plans' = bee_plans /\ plan_res' = r
    /\ UNCHANGED <<query_steps, nb_hcomb, tables, src_bee_plan, hcomb_plan>>
    /\ UNCHANGED <<pqVars, hbVars, hcVars, tnVars, rcVars>>

\* plan(), lines 59-62
PlanRegister ==
    /\ ppc = "register"
    /\ tables' = register_table(tables, query_steps[1].name,
                                HCombTable(QueryId, Len(bee_plans)))
    /\ ppc' = "sql_hcomb"
    /\ UNCHANGED <<query_steps, nb_hcomb, src_bee_plan, bee_plans, hcomb_plan, plan_res>>
    /\ UNCHANGED <<pqVars, hbVars, hcVars, tnVars, rcVars>>

\* plan(), lines 65-66
PlanSqlHComb ==
    /\ ppc = "sql_hcomb"
    /\ LET r == sql(tables, query_steps[2].sql) IN
       IF r.kind = "Ok"
       THEN ppc' = "distribute" /\ hcomb_plan' = r.val /\ plan_res' = plan_res
       ELSE ppc' = "done" /\ hcomb_plan' = hcomb_plan /\ plan_res' = r
    /\ UNCHANGED <<query_steps, nb_hcomb, tables, src_bee_plan, bee_plans>>
    /\ UNCHANGED <<pqVars, hbVars, hcVars, tnVars, rcVars>>

\* plan(), lines 70-86
PlanDistribute ==
    /\ ppc = "distribute"
    /\ plan_res' = distribute(nb_hcomb, bee_plans, hcomb_plan)
    /\ ppc' = "done"
    /\ UNCHANGED <<query_steps, nb_hcomb, tables, src_bee_plan, bee_plans, hcomb_plan>>
    /\ UNCHANGED <<pqVars, hbVars, hcVars, tnVars, rcVars>>

PlannerNext ==
    \/ PlanAssert
    \/ PlanSqlHBee
    \/ PlanSplit
    \/ PlanRegister
    \/ PlanSqlHComb
    \/ PlanDistribute

PlannerSpecInit == PlannerInit /\ PqIdle /\ HBeeIdle /\ HCombIdle /\ TryNewIdle /\ RangeCacheIdle
PlannerSpec == PlannerSpecInit /\ [][PlannerNext]_vars


(***************************************************************************)
(* Properties of the planner.                                              *)
(***************************************************************************)
RECURSIVE HasMultiInput(_)
HasMultiInput(plan) ==
    \/ Len(plan.inputs) > 1
    \/ \E i \in 1..Len(plan.inputs) : HasMultiInput(plan.inputs[i])

RECURSIVE LeafOf(_)
LeafOf(plan) == IF Len(plan.inputs) = 0 THEN plan ELSE LeafOf(plan.inputs[1])

RECURSIVE References(_, _)
References(shape, name) ==
    \/ shape.op = "TableRef" /\ shape.source.id = name
    \/ \E i \in 1..Len(shape.inputs) : References(shape.inputs[i], name)

RECURSIVE TotalHBee(_)
TotalHBee(zones) ==
    IF Len(zones) = 0 THEN 0
    ELSE Len(zones[1].hbee) + TotalHBee(Tail(zones))

Returned == ppc = "done"

\* the HBee SQL is a linear plan over the catalog "test", which has >= 1 file
LinearOverCatalog ==
    /\ steps_accepted(query_steps)
    /\ ~HasMultiInput(query_steps[1].sql)
    /\ LeafOf(query_steps[1].sql) = TableRef("test")
    /\ "test" \in DOMAIN tables
    /\ tables["test"].kind = "CatalogTable"
    /\ tables["test"].n >= 1

\* C1: for a catalog that splits into k >= 1 files and nb_hcomb >= 1, plan
\* returns a DistributedPlan with min(k, nb_hcomb) zones, whose hbee lists hold
\* k plans in all, every split plan in exactly one zone, and the largest and
\* the smallest zone differ by at most one plan.
C1_EvenZones ==
    (Returned /\ LinearOverCatalog /\ nb_hcomb >= 1) =>
        /\ plan_res.kind = "Ok"
        /\ LET zs == plan_res.val.zones
               k == tables["test"].n
           IN  /\ Len(bee_plans) = k
               /\ Len(zs) = Min(k, nb_hcomb)
               /\ TotalHBee(zs) = k
               /\ \A j \in 1..k :
                     Cardinality({zp \in {<<z, q>> : z \in 1..Len(zs), q \in 1..k} :
                                     /\ zp[2] <= Len(zs[zp[1]].hbee)
                                     /\ zs[zp[1]].hbee[zp[2]] = bee_plans[j]}) = 1
               /\ \A a, b \in 1..Len(zs) : Len(zs[a].hbee) - Len(zs[b].hbee) <= 1

C1_Witness ==
    /\ Returned /\ LinearOverCatalog /\ nb_hcomb = 2
    /\ tables["test"].n = 3
    /\ plan_res.kind = "Ok"
    /\ Len(plan_res.val.zones) = 2
    /\ Len(plan_res.val.zones[1].hbee) = 2
    /\ Len(plan_res.val.zones[2].hbee) = 1

\* C8: plan called with a step list that is not exactly [HBee, HComb] returns
\* a NotImplemented error to its caller.
C8_BadStepsReturnNotImplemented ==
    (Returned /\ ~steps_accepted(query_steps)) =>
        (plan_res.kind = "Err" /\ plan_res.val = "NotImplemented")

\* the HBee SQL names the table "test" and no provider is registered for it
UnknownTable ==
    /\ steps_accepted(query_steps)
    /\ References(query_steps[1].sql, "test")
    /\ "test" \notin DOMAIN tables

\* C9: when the HBee SQL references a table with no registered catalog, plan
\* returns an error and no DistributedPlan; no scan plan and no merge plan is
\* ever produced on the way.
C9_UnknownTableFails ==
    UnknownTable =>
        /\ ppc \in {"assert", "sql_hbee", "done"}
        /\ bee_plans = <<>>
        /\ hcomb_plan = EmptyRelation
        /\ plan_res.kind \in {"None", "Err"}
        /\ Returned => plan_res.kind = "Err"

C9_Witness ==
    /\ UnknownTable /\ Returned
    /\ plan_res.kind = "Err"
    /\ plan_res.val = "Plan"

\* the HBee SQL resolved, and some node of its plan has more than one input
MultiInputPlan ==
    /\ steps_accepted(query_steps)
    /\ sql(tables, query_steps[1].sql).kind = "Ok"
    /\ HasMultiInput(query_steps[1].sql)

\* C10: when any node of the scan plan, at any depth, has more than one
\* input, split fails with NotImplemented and gives no partial list, and plan
\* returns that error.
C10_MultiInputNotImplemented ==
    /\ (Returned /\ MultiInputPlan) =>
            /\ plan_res.kind = "Err"
            /\ plan_res.val = "NotImplemented"
            /\ bee_plans = <<>>
    /\ (ppc = "split" /\ HasMultiInput(src_bee_plan)) =>
            /\ split(src_bee_plan).kind = "Err"
            /\ split(src_bee_plan).val = "NotImplemented"

C10_Witness ==
    /\ Returned /\ MultiInputPlan
    /\ Len(query_steps[1].sql.inputs) = 1
    /\ Len(query_steps[1].sql.inputs[1].inputs) = 1
    /\ Len(query_steps[1].sql.inputs[1].inputs[1].inputs) = 2
    /\ plan_res.kind = "Err"
    /\ plan_res.val = "NotImplemented"

\* the operators and expressions from the root down to the parent of the leaf
RECURSIVE AncestorChain(_)
AncestorChain(plan) ==
    IF Len(plan.inputs) = 0 THEN <<>>
    ELSE <<[op |-> plan.op, exprs |-> plan.exprs]>> \o AncestorChain(plan.inputs[1])

\* split has run on src_bee_plan and has returned Ok
SplitReturned == ppc \in {"register", "sql_hcomb", "distribute"}

\* C11: for a linear plan whose leaf is a CatalogTable that splits into k files,
\* split returns k plans, the j-th with the j-th table of catalog.split() as its
\* leaf under the same chain of operators and expressions as the input plan;
\* for a linear plan with any other leaf it returns the input plan alone.
C11_SplitKeepsChain ==
    (ppc = "split" /\ ~HasMultiInput(src_bee_plan)) =>
        LET r == split(src_bee_plan)
            leaf == LeafOf(src_bee_plan)
        IN  /\ r.kind = "Ok"
            /\ IF as_catalog(leaf).kind = "CatalogTable"
               THEN LET items == catalog_split(leaf.source) IN
                    /\ Len(r.val) = leaf.source.n
                    /\ Len(r.val) = Len(items)
                    /\ \A j \in 1..Len(r.val) :
                          /\ ~HasMultiInput(r.val[j])
                          /\ LeafOf(r.val[j]) = TableScan(items[j])
                          /\ AncestorChain(r.val[j]) = AncestorChain(src_bee_plan)
               ELSE r.val = <<src_bee_plan>>

\* what the split step of plan() leaves in bee_plans is what split returned
C11_PlanKeepsSplit ==
    SplitReturned => (split(src_bee_plan).kind = "Ok" /\ bee_plans = split(src_bee_plan).val)

C11_SplitLinear == C11_SplitKeepsChain /\ C11_PlanKeepsSplit

C11_Witness ==
    /\ SplitReturned
    /\ Len(AncestorChain(src_bee_plan)) >= 2
    /\ as_catalog(LeafOf(src_bee_plan)).kind = "CatalogTable"
    /\ Len(bee_plans) = 3
    /\ LeafOf(bee_plans[3]) = TableScan(HBeeTable("test", 3))
    /\ AncestorChain(bee_plans[3]) = AncestorChain(src_bee_plan)

\* C17: plan puts the i-th plan of split (0-based) in zone i mod z, where z is
\* min(nb_hcomb, k) for nb_hcomb >= 1; the plans of a zone keep the order split
\* gave them; every zone holds the same merge plan.
C17_RoundRobin ==
    (Returned /\ plan_res.kind = "Ok") =>
        LET zs == plan_res.val.zones
            k == Len(bee_plans)
            z == Len(zs)
        IN  /\ nb_hcomb >= 1 => z = Min(nb_hcomb, k)
            /\ k > 0 => z > 0
            /\ \A i \in 0..(k - 1) :
                  /\ (i \div z) + 1 <= Len(zs[(i % z) + 1].hbee)
                  /\ zs[(i % z) + 1].hbee[(i \div z) + 1] = bee_plans[i + 1]
            /\ \A a \in 1..z :
                  /\ Len(zs[a].hbee) = Cardinality({i \in 0..(k - 1) : i % z = a - 1})
                  /\ zs[a].hcomb = hcomb_plan

C17_Witness ==
    /\ Returned /\ plan_res.kind = "Ok" /\ nb_hcomb = 2
    /\ Len(bee_plans) = 3
    /\ plan_res.val.zones[1].hbee = <<bee_plans[1], bee_plans[3]>>
    /\ plan_res.val.zones[2].hbee = <<bee_plans[2]>>
    /\ plan_res.val.zones[1].hcomb = plan_res.val.zones[2].hcomb
    /\ bee_plans[1] # bee_plans[3]

\* the zones of the DistributedPlan that plan() returned
ReturnedZones ==
    IF Returned /\ plan_res.kind = "Ok" THEN plan_res.val.zones ELSE <<>>

\* the merge plan of the zone reads the intermediate table of this query
ReadsResultTable(zone) ==
    /\ LeafOf(zone.hcomb).source.kind = "HCombTable"
    /\ LeafOf(zone.hcomb).source.id = QueryId

\* C21: in every returned DistributedPlan, the number of partitions the merge
\* plan of a zone waits for equals the number of scan plans of that zone.
C21_ZoneWaitsForOwnScanners ==
    \A a \in 1..Len(ReturnedZones) :
        ReadsResultTable(ReturnedZones[a]) =>
            LeafOf(ReturnedZones[a].hcomb).source.n = Len(ReturnedZones[a].hbee)

\* C22: every zone of a returned DistributedPlan holds at least one scan plan,
\* and a split into no plan at all gives no zone.
C22_NoEmptyZone ==
    /\ \A a \in 1..Len(ReturnedZones) : Len(ReturnedZones[a].hbee) >= 1
    /\ (Returned /\ plan_res.kind = "Ok" /\ Len(bee_plans) = 0) =>
          plan_res.val.zones = <<>>

C22_Witness ==
    /\ Returned /\ plan_res.kind = "Ok"
    /\ nb_hcomb = 3
    /\ Len(bee_plans) = 2
    /\ Len(ReturnedZones) = 2
    /\ Len(ReturnedZones[1].hbee) = 1
    /\ Len(ReturnedZones[2].hbee) = 1

\* C24: for every nb_hcomb, zero and negative included, and every number of
\* split plans, a plan() that got past its assert returns a DistributedPlan or
\* an error: the distribution never divides by zero and never indexes a zone
\* that does not exist.
C24_PlanReturnsValue ==
    (Returned /\ steps_accepted(query_steps)) => plan_res.kind \in {"Ok", "Err"}


(***************************************************************************)
(* ParquetExec::try_new: for each file, the footer prefetch, the reader,   *)
(* the schema check, and one prefetch per row group and projected column.  *)
(***************************************************************************)
FooterLength == 1048576

\* u64::checked_sub
checked_sub(a, b) == IF a >= b THEN [some |-> TRUE, val |-> a - b]
                     ELSE [some |-> FALSE, val |-> 0]

\* a download_footer that subtracts without the check
download_footer_unchecked(len) ==
    [start |-> IF len >= FooterLength THEN len - FooterLength ELSE 0,
     length |-> FooterLength]

\* ParquetExec::download_footer: the range given to file.prefetch
download_footer(len) ==
    LET end_length == FooterLength
        sub == checked_sub(len, end_length)
    IN  IF sub.some THEN [start |-> sub.val, length |-> end_length]
        ELSE [start |-> 0, length |-> len]

FileLengths == {0, 1, FooterLength - 1, FooterLength, FooterLength + 1, 3 * FooterLength}

\* a Parquet file holds at least its two 4-byte magics and the 4-byte footer length
Readable(len) == len >= 12

TryNewFiles ==
    UNION {[1..n -> [len : FileLengths, row_groups : 0..MaxRowGroups]] :
              n \in 0..MaxTryNewFiles}

Projections ==
    {[some |-> FALSE, cols |-> <<>>]}
    \cup {[some |-> TRUE, cols |-> c] :
             c \in {d \in UNION {[1..n -> 0..(NbColumns - 1)] : n \in 0..NbColumns} :
                       \A a, b \in 1..Len(d) : a < b => d[a] < d[b]}}

\* lines 48-51: the projection, or every field of the schema
projection_of(projection) ==
    IF projection.some THEN projection.cols ELSE [c \in 1..NbColumns |-> c - 1]

FooterPrefetch(i, range) ==
    [kind |-> "footer", on |-> i, of |-> i, rg |-> 0, col |-> 0,
     start |-> range.start, length |-> range.length]

\* the prefetch, issued on files[on], of the byte range of column chunk (rg, col) of
\* the file whose metadata is being read (of)
ChunkPrefetch(on, of, rg, col) ==
    [kind |-> "chunk", on |-> on, of |-> of, rg |-> rg, col |-> col,
     start |-> 0, length |-> 0]

\* the file indexed by the prefetch call of line 73: files[i], where i is the
\* innermost binding of that name
prefetch_index(i, g) == g

TryNewInit ==
    /\ tn_files \in TryNewFiles
    /\ tn_projection \in Projections
    /\ tn_pc = "file"
    /\ tn_i = 0
    /\ tn_g = 0
    /\ tn_p = 0
    /\ tn_prefetches = {}
    /\ tn_res = NoResult

\* line 54
TryNewDownloadFooter ==
    /\ tn_pc = "file"
    /\ tn_i < Len(tn_files)
    /\ tn_prefetches' = tn_prefetches
           \cup {FooterPrefetch(tn_i, download_footer(tn_files[tn_i + 1].len))}
    /\ tn_pc' = "open"
    /\ UNCHANGED <<tn_files, tn_projection, tn_i, tn_g, tn_p, tn_res>>
    /\ UNCHANGED <<plannerVars, pqVars, hbVars, hcVars, rcVars>>

\* lines 55-65: the reader is created and its schema is compared
TryNewOpen ==
    /\ tn_pc = "open"
    /\ \E outcome \in IF Readable(tn_files[tn_i + 1].len)
                       THEN {"ok", "no_reader", "schema"} ELSE {"no_reader"} :
          CASE outcome = "no_reader" ->
                  /\ tn_res' = Panic("Failed to create serialized reader")
                  /\ tn_pc' = "done"
                  /\ UNCHANGED <<tn_i, tn_g, tn_p>>
            [] outcome = "schema" ->
                  /\ tn_res' = Err("Plan")
                  /\ tn_pc' = "done"
                  /\ UNCHANGED <<tn_i, tn_g, tn_p>>
            [] outcome = "ok" ->
                  /\ tn_res' = tn_res
                  /\ tn_g' = 0
                  /\ tn_p' = 0
                  /\ IF tn_files[tn_i + 1].row_groups > 0
                        /\ Len(projection_of(tn_projection)) > 0
                     THEN tn_pc' = "prefetch" /\ tn_i' = tn_i
                     ELSE tn_pc' = "file" /\ tn_i' = tn_i + 1
    /\ UNCHANGED <<tn_files, tn_projection, tn_prefetches>>
    /\ UNCHANGED <<plannerVars, pqVars, hbVars, hcVars, rcVars>>

\* lines 68-75: one pass of the innermost loop
TryNewPrefetch ==
    /\ tn_pc = "prefetch"
    /\ LET projection == projection_of(tn_projection)
           on == prefetch_index(tn_i, tn_g)
       IN  IF on >= Len(tn_files)
           THEN /\ tn_res' = Panic("index out of bounds")
                /\ tn_pc' = "done"
                /\ UNCHANGED <<tn_i, tn_g, tn_p, tn_prefetches>>
           ELSE /\ tn_prefetches' = tn_prefetches
                       \cup {ChunkPrefetch(on, tn_i, tn_g, projection[tn_p + 1])}
                /\ tn_res' = tn_res
                /\ IF tn_p + 1 < Len(projection)
                   THEN tn_p' = tn_p + 1 /\ UNCHANGED <<tn_i, tn_g, tn_pc>>
                   ELSE IF tn_g + 1 < tn_files[tn_i + 1].row_groups
                   THEN tn_p' = 0 /\ tn_g' = tn_g + 1 /\ UNCHANGED <<tn_i, tn_pc>>
                   ELSE tn_p' = 0 /\ tn_g' = 0 /\ tn_i' = tn_i + 1 /\ tn_pc' = "file"
    /\ UNCHANGED <<tn_files, tn_projection>>
    /\ UNCHANGED <<plannerVars, pqVars, hbVars, hcVars, rcVars>>

\* lines 78-90
TryNewReturn ==
    /\ tn_pc = "file"
    /\ tn_i = Len(tn_files)
    /\ tn_res' = Ok([files |-> Len(tn_files), projection |-> projection_of(tn_projection)])
    /\ tn_pc' = "done"
    /\ UNCHANGED <<tn_files, tn_projection, tn_i, tn_g, tn_p, tn_prefetches>>
    /\ UNCHANGED <<plannerVars, pqVars, hbVars, hcVars, rcVars>>

TryNewNext ==
    \/ TryNewDownloadFooter
    \/ TryNewOpen
    \/ TryNewPrefetch
    \/ TryNewReturn

TryNewSpecInit == TryNewInit /\ PlannerIdle /\ PqIdle /\ HBeeIdle /\ HCombIdle /\ RangeCacheIdle
TryNewSpec == TryNewSpecInit /\ [][TryNewNext]_vars

(***************************************************************************)
(* Properties of try_new.                                                  *)
(***************************************************************************)
TryNewReturned == tn_pc = "done"
IndexFault == tn_res.kind = "Panic" /\ tn_res.val = "index out of bounds"
ChunkPrefetches == {x \in tn_prefetches : x.kind = "chunk"}
FooterPrefetches == {x \in tn_prefetches : x.kind = "footer"}

\* every column chunk of every file, prefetched on the file it belongs to
OwnChunks ==
    {ChunkPrefetch(f, f, g, projection_of(tn_projection)[c]) :
        f \in 0..(Len(tn_files) - 1), g \in 0..(MaxRowGroups - 1),
        c \in 1..Len(projection_of(tn_projection))}
    \cap {x \in [kind : {"chunk"}, on : 0..MaxTryNewFiles, of : 0..MaxTryNewFiles,
                 rg : 0..MaxRowGroups, col : 0..NbColumns, start : {0}, length : {0}] :
             x.of < Len(tn_files) /\ x.rg < tn_files[x.of + 1].row_groups}

\* C12: try_new prefetches the byte range of every column chunk (g, c) of every
\* file f on file f itself, whatever the number of files and of row groups, and
\* never faults on an index.
C12_PrefetchOnOwnFile ==
    /\ \A x \in ChunkPrefetches : x.on = x.of
    /\ ~IndexFault
    /\ (TryNewReturned /\ tn_res.kind = "Ok") => ChunkPrefetches = OwnChunks

\* C18: for a file of length L the footer prefetch starts at L - 1 MiB with length
\* 1 MiB when L >= 1 MiB, and at 0 with length L otherwise: the window ends at L,
\* does not start below 0 and does not pass the end of the file.
C18_FooterWindow ==
    /\ \A i \in 0..(Len(tn_files) - 1) :
          (tn_i > i \/ (tn_i = i /\ tn_pc \in {"open", "prefetch"})) =>
              \E x \in FooterPrefetches : x.on = i
    /\ \A x \in FooterPrefetches :
          LET L == tn_files[x.on + 1].len IN
          /\ x.length = Min(L, FooterLength)
          /\ x.start = (IF L >= FooterLength THEN L - FooterLength ELSE 0)
          /\ x.start + x.length = L
          /\ x.start >= 0

C18_Witness ==
    /\ \E x \in FooterPrefetches :
          tn_files[x.on + 1].len = FooterLength - 1 /\ x.start = 0
          /\ x.length = FooterLength - 1
    /\ \E x \in FooterPrefetches :
          tn_files[x.on + 1].len = FooterLength + 1 /\ x.start = 1
          /\ x.length = FooterLength

(***************************************************************************)
(* RangeCache: an interval map over one object.  A caller makes prefetch   *)
(* and read calls one after the other; the downloads they issue complete   *)
(* or fail on the scheduler, in any order.                                 *)
(***************************************************************************)
Offsets == {0, 50}
Lengths == {100, 200}

Interval(start, len, state) == [start |-> start, len |-> len, state |-> state]
CacheOp(op, start, len) == [op |-> op, start |-> start, len |-> len]

\* some interval of the map holds byte b
in_map(map, b) == \E iv \in map : iv.start <= b /\ b < iv.start + iv.len

\* the intervals of the map that overlap [start, start + len)
covering(map, start, len) ==
    {iv \in map : iv.start < start + len /\ start < iv.start + iv.len}

\* the places inside [start, start + len) where the map may change from held
\* to missing
cut_points(map, start, len) ==
    {start, start + len} \cup
    {p \in {iv.start : iv \in map} \cup {iv.start + iv.len : iv \in map} :
        start < p /\ p < start + len}

\* a download of the whole requested range as soon as a byte of it is missing
gaps_whole_range(map, start, len) ==
    IF \E b \in start..(start + len - 1) : ~in_map(map, b)
    THEN {[start |-> start, len |-> len]}
    ELSE {}

\* the set-difference of [start, start + len) against the interval map: the
\* maximal sub-ranges no interval holds
gaps(map, start, len) ==
    LET cuts == cut_points(map, start, len)
    IN  {[start |-> a, len |-> b - a] :
            <<a, b>> \in {x \in cuts \X cuts :
                            /\ x[1] < x[2]
                            /\ ~\E p \in cuts : x[1] < p /\ p < x[2]
                            /\ ~in_map(map, x[1])}}

\* one download issued per gap: the range enters the map as Pending
submit(map, start, len) ==
    map \cup {Interval(g.start, g.len, "Pending") : g \in gaps(map, start, len)}

RangeCacheInit == RangeCacheIdle

RcCanCall == rc_reading = NoRange /\ Len(rc_log) < MaxCacheOps

\* prefetch(offset, length): a hint that does not block
RcPrefetch ==
    \E o \in Offsets, n \in Lengths :
        /\ RcCanCall
        /\ rc_map' = submit(rc_map, o, n)
        /\ rc_log' = Append(rc_log, CacheOp("prefetch", o, n))
        /\ UNCHANGED <<rc_reading, rc_res, rc_stats>>
        /\ UNCHANGED <<plannerVars, pqVars, hbVars, hcVars, tnVars>>

\* read(offset, length): prefetches what is missing and parks the caller
RcReadStart ==
    \E o \in Offsets, n \in Lengths :
        /\ RcCanCall
        /\ rc_map' = submit(rc_map, o, n)
        /\ rc_log' = Append(rc_log, CacheOp("read", o, n))
        /\ rc_reading' = [start |-> o, len |-> n]
        /\ rc_res' = NoResult
        /\ UNCHANGED rc_stats
        /\ UNCHANGED <<plannerVars, pqVars, hbVars, hcVars, tnVars>>

\* the parked read returns: a covering download has Failed, or the whole range
\* is Ready
RcReadReturn ==
    /\ rc_reading # NoRange
    /\ LET cov == covering(rc_map, rc_reading.start, rc_reading.len)
       IN  \/ /\ \E iv \in cov : iv.state = "Failed"
              /\ rc_res' = Err("Failed")
              /\ UNCHANGED rc_stats
           \/ /\ \A iv \in cov : iv.state = "Ready"
              /\ rc_res' = Ok(rc_reading.len)
              /\ rc_stats' = [rc_stats EXCEPT
                                !.processed_bytes = @ + rc_reading.len]
    /\ rc_reading' = NoRange
    /\ UNCHANGED <<rc_map, rc_log>>
    /\ UNCHANGED <<plannerVars, pqVars, hbVars, hcVars, tnVars>>

\* a download completes: its bytes are inserted and the range is Ready
RcDownloadDone ==
    \E iv \in rc_map :
        /\ iv.state = "Pending"
        /\ rc_map' = (rc_map \ {iv}) \cup {Interval(iv.start, iv.len, "Ready")}
        /\ rc_stats' = [rc_stats EXCEPT
                          !.download_count = @ + 1,
                          !.downloaded_bytes = @ + iv.len]
        /\ UNCHANGED <<rc_log, rc_reading, rc_res>>
        /\ UNCHANGED <<plannerVars, pqVars, hbVars, hcVars, tnVars>>

\* the object store fails a download: Pending -> Failed
RcDownloadFail ==
    \E iv \in rc_map :
        /\ iv.state = "Pending"
        /\ rc_map' = (rc_map \ {iv}) \cup {Interval(iv.start, iv.len, "Failed")}
        /\ UNCHANGED <<rc_log, rc_reading, rc_res, rc_stats>>
        /\ UNCHANGED <<plannerVars, pqVars, hbVars, hcVars, tnVars>>

RangeCacheNext ==
    \/ RcPrefetch
    \/ RcReadStart
    \/ RcReadReturn
    \/ RcDownloadDone
    \/ RcDownloadFail

RangeCacheSpecInit ==
    RangeCacheInit /\ PlannerIdle /\ PqIdle /\ HBeeIdle /\ HCombIdle /\ TryNewIdle
RangeCacheSpec == RangeCacheSpecInit /\ [][RangeCacheNext]_vars

(***************************************************************************)
(* Properties of the range cache.                                          *)
(***************************************************************************)
\* the calls prefetch(0,100); prefetch(50,100); read(0,200) were made on a
\* fresh cache and the read has returned its bytes
DedupSequenceDone ==
    /\ rc_log = <<CacheOp("prefetch", 0, 100), CacheOp("prefetch", 50, 100),
                  CacheOp("read", 0, 200)>>
    /\ rc_reading = NoRange
    /\ rc_res = Ok(200)

Downloaded == {[start |-> iv.start, len |-> iv.len] : iv \in {x \in rc_map : x.state = "Ready"}}

ChannelCapacity == 2

Batch(i) == [kind |-> "batch", id |-> i]      \* Some(Ok(batch))
ReadError == [kind |-> "err", id |-> 0]       \* Some(Err(e))
Sentinel == [kind |-> "end", id |-> 0]        \* None
NoItem == [kind |-> "none", id |-> 0]

\* The files a partition may hold: n batches, then end of file or a read error.
Files ==
    {[i \in 1..n |-> Batch(i)] : n \in 0..MaxBatches}
    \cup {[i \in 1..(n + 1) |-> IF i <= n THEN Batch(i) ELSE ReadError] : n \in 0..MaxBatches}

OpenResults == {"ok", "err", "panic"}

\* batch_reader.next() after `done` items have been read
reader_next(f, done) == IF done < Len(f) THEN f[done + 1] ELSE Sentinel

\* a channel that never reports itself full
sync_send_unbounded(buf, receiver_alive, item) ==
    IF ~receiver_alive THEN [res |-> "Err", buf |-> buf]
    ELSE [res |-> "Ok", buf |-> Append(buf, item)]

\* a channel whose sender never learns that the receiver has gone away
sync_send_no_disconnect(buf, receiver_alive, item) ==
    IF Len(buf) >= ChannelCapacity THEN [res |-> "Block", buf |-> buf]
    ELSE [res |-> "Ok", buf |-> Append(buf, item)]

\* SyncSender::send on the channel made by sync_channel(2), as send_result
\* calls it: an error once the receiver is gone, a wait while the buffer is full.
sync_send(buf, receiver_alive, item) ==
    IF ~receiver_alive THEN [res |-> "Err", buf |-> buf]
    ELSE IF Len(buf) >= ChannelCapacity THEN [res |-> "Block", buf |-> buf]
    ELSE [res |-> "Ok", buf |-> Append(buf, item)]

\* a receiver that takes the newest item of the buffer
sync_recv_newest(buf, sender_alive) ==
    IF Len(buf) > 0
    THEN [res |-> "Ok", item |-> buf[Len(buf)], buf |-> SubSeq(buf, 1, Len(buf) - 1)]
    ELSE IF ~sender_alive THEN [res |-> "Err", item |-> NoItem, buf |-> buf]
    ELSE [res |-> "Block", item |-> NoItem, buf |-> buf]

\* a receiver that does not wait: an empty buffer reads as a closed channel
sync_recv_no_wait(buf, sender_alive) ==
    IF Len(buf) > 0 THEN [res |-> "Ok", item |-> Head(buf), buf |-> Tail(buf)]
    ELSE [res |-> "Err", item |-> NoItem, buf |-> buf]

\* Receiver::recv as poll_next calls it: the oldest buffered item, an error
\* once the buffer is empty and the sender is gone, a wait otherwise.
sync_recv(buf, sender_alive) ==
    IF Len(buf) > 0 THEN [res |-> "Ok", item |-> Head(buf), buf |-> Tail(buf)]
    ELSE IF ~sender_alive THEN [res |-> "Err", item |-> NoItem, buf |-> buf]
    ELSE [res |-> "Block", item |-> NoItem, buf |-> buf]

EndCount(ys) == Cardinality({i \in 1..Len(ys) : ys[i].kind = "end"})
BatchesRead == Cardinality({i \in 1..Len(sent) : sent[i].kind = "batch"})

\* execute(): the channel exists, the thread is spawned, the stream is returned.
PqInit ==
    /\ file \in Files
    /\ open_res \in OpenResults
    /\ wpc = "spawned"
    /\ exit_reason = ""
    /\ pending = NoItem
    /\ chan = <<>>
    /\ rx_alive = TRUE
    /\ tx_alive = TRUE
    /\ sent = <<>>
    /\ recvd = <<>>
    /\ yielded = <<>>

\* read_file, lines 179-181: path_to_reader may panic, the record reader may fail.
WorkerOpen ==
    /\ wpc = "spawned"
    /\ IF open_res = "ok"
       THEN wpc' = "read" /\ exit_reason' = exit_reason
       ELSE wpc' = "finish" /\ exit_reason' = IF open_res = "err" THEN "open_failed" ELSE "panic"
    /\ UNCHANGED <<file, open_res, pending, chan, rx_alive, tx_alive, sent, recvd, yielded>>
    /\ UNCHANGED <<plannerVars, hbVars, hcVars, tnVars, rcVars>>

\* read_file, line 183: batch_reader.next()
WorkerRead ==
    /\ wpc = "read"
    /\ pending' = reader_next(file, BatchesRead)
    /\ wpc' = "send"
    /\ UNCHANGED <<file, open_res, exit_reason, chan, rx_alive, tx_alive, sent, recvd, yielded>>
    /\ UNCHANGED <<plannerVars, hbVars, hcVars, tnVars, rcVars>>

\* read_file, lines 184-200: send_result(..)? and what follows it
WorkerSend ==
    /\ wpc = "send"
    /\ LET r == sync_send(chan, rx_alive, pending) IN
       /\ r.res # "Block"
       /\ chan' = r.buf
       /\ IF r.res = "Err"
          THEN /\ wpc' = "finish"
               /\ exit_reason' = "send_failed"
               /\ sent' = sent
          ELSE /\ sent' = Append(sent, pending)
               /\ wpc' = IF pending.kind = "batch" THEN "read" ELSE "finish"
               /\ exit_reason' = IF pending.kind = "batch" THEN exit_reason
                                 ELSE IF pending.kind = "end" THEN "eof" ELSE "error"
    /\ pending' = NoItem
    /\ UNCHANGED <<file, open_res, rx_alive, tx_alive, recvd, yielded>>
    /\ UNCHANGED <<plannerVars, hbVars, hcVars, tnVars, rcVars>>

\* read_file returns (or unwinds): the thread ends and response_tx is dropped.
WorkerExit ==
    /\ wpc = "finish"
    /\ wpc' = "exited"
    /\ tx_alive' = FALSE
    /\ UNCHANGED <<file, open_res, exit_reason, pending, chan, rx_alive, sent, recvd, yielded>>
    /\ UNCHANGED <<plannerVars, hbVars, hcVars, tnVars, rcVars>>

\* ParquetStream::poll_next
PollNext ==
    /\ rx_alive
    /\ EndCount(yielded) < MaxEndPolls
    /\ LET r == sync_recv(chan, tx_alive) IN
       /\ r.res # "Block"
       /\ chan' = r.buf
       /\ IF r.res = "Ok"
          THEN recvd' = Append(recvd, r.item) /\ yielded' = Append(yielded, r.item)
          ELSE recvd' = recvd /\ yielded' = Append(yielded, Sentinel)
    /\ UNCHANGED <<file, open_res, wpc, exit_reason, pending, rx_alive, tx_alive, sent>>
    /\ UNCHANGED <<plannerVars, hbVars, hcVars, tnVars, rcVars>>

\* the consumer drops the ParquetStream: response_rx is dropped with its buffer
DropStream ==
    /\ rx_alive
    /\ rx_alive' = FALSE
    /\ chan' = <<>>
    /\ UNCHANGED <<file, open_res, wpc, exit_reason, pending, tx_alive, sent, recvd, yielded>>
    /\ UNCHANGED <<plannerVars, hbVars, hcVars, tnVars, rcVars>>

PqNext ==
    \/ WorkerOpen
    \/ WorkerRead
    \/ WorkerSend
    \/ WorkerExit
    \/ PollNext
    \/ DropStream

PqSpecInit == PqInit /\ PlannerIdle /\ HBeeIdle /\ HCombIdle /\ TryNewIdle /\ RangeCacheIdle
PqSpec == PqSpecInit /\ [][PqNext]_vars

\* The worker is an OS thread: it is scheduled whenever it can take a step.
PqFairSpec ==
    /\ PqSpec
    /\ WF_vars(WorkerOpen)
    /\ WF_vars(WorkerRead)
    /\ WF_vars(WorkerSend)
    /\ WF_vars(WorkerExit)


\* C23: the items of one stream are batches, then at most one error, then
\* end-of-stream: nothing but end-of-stream follows an error or an
\* end-of-stream, and end-of-stream is yielded only once the worker has sent the
\* sentinel or has exited.
C23_StreamShape ==
    /\ \A i \in 1..Len(yielded) : \A j \in (i + 1)..Len(yielded) :
          yielded[i].kind \in {"err", "end"} => yielded[j].kind = "end"
    /\ EndCount(yielded) > 0 =>
          \/ \E i \in 1..Len(sent) : sent[i].kind = "end"
          \/ wpc = "exited"

C23_Witness ==
    /\ yielded = <<Batch(1), ReadError, Sentinel, Sentinel>>
    /\ wpc = "exited"
    /\ exit_reason = "error"

(***************************************************************************)
(* HBeeService::execute_query and HBeeService::query.                      *)
(***************************************************************************)
HBeeQueryIds == {"q1", "q2"}
HCombAddresses == {"hcomb_a", "hcomb_b"}

\* a physical plan's partitions; batch b of partition p is <<p, b>>
PartitionsOf(n, per) == [p \in 1..n |-> [b \in 1..per |-> <<p, b>>]]

HBeeEnvs ==
    [optimize : BOOLEAN, find_table : BOOLEAN, create_physical_plan : BOOLEAN,
     partitions : {PartitionsOf(n, per) : n \in 0..MaxPartitions, per \in 0..MaxPerPartition},
     collect : BOOLEAN]

\* MergeExec: the batches of all partitions, each partition's in its own order
RECURSIVE Merges(_)
Merges(ps) ==
    LET live == {i \in 1..Len(ps) : Len(ps[i]) > 0} IN
    IF live = {} THEN {<<>>}
    ELSE UNION {{<<Head(ps[i])>> \o m : m \in Merges([ps EXCEPT ![i] = Tail(@)])} : i \in live}

\* output_partitioning().partition_count(): a MergeExec has one partition
partition_count(plan) == IF plan.stage = "merged" THEN 1 ELSE Len(plan.partitions)

\* datafusion::physical_plan::collect on the plan that query() executes
collect_results(plan) ==
    IF plan.stage = "merged" THEN Merges(plan.partitions) ELSE {plan.partitions[1]}

\* Collector::send_back: on a successful outcome one streaming upload of the
\* batches to the hcomb, on a failed one a FAIL action carrying the reason.
send_back(col, query_id, query_res, address) ==
    LET call == [query_id |-> query_id, outcome |-> query_res.kind, address |-> address] IN
    IF query_res.kind = "Ok"
    THEN [col EXCEPT !.calls = Append(@, call),
                     !.put = Append(@, [query_id |-> query_id, batches |-> query_res.val,
                                        address |-> address])]
    ELSE [col EXCEPT !.calls = Append(@, call),
                     !.fail = Append(@, [query_id |-> query_id, reason |-> query_res.val,
                                         address |-> address])]

\* an execute_query that returns query()'s error with ? before the collector
collector_send_back_on_ok(col, query_id, query_res, address) ==
    IF query_res.kind = "Ok" THEN send_back(col, query_id, query_res, address) ELSE col

\* execute_query, line 54: self.collector.send_back(query_id, query_res, address)
collector_send_back(col, query_id, query_res, address) ==
    send_back(col, query_id, query_res, address)

HBeeInit ==
    /\ hb_args \in [query_id : HBeeQueryIds, address : HCombAddresses]
    /\ hb_env \in HBeeEnvs
    /\ hb_pc = "optimize"
    /\ hb_trace = <<>>
    /\ hb_plan = [stage |-> "logical", cache |-> 0, partitions |-> <<>>]
    /\ hb_query_res = NoResult
    /\ hb_collector = [calls |-> <<>>, put |-> <<>>, fail |-> <<>>]
    /\ hb_ret = NoResult

\* query(), line 65
QueryOptimize ==
    /\ hb_pc = "optimize"
    /\ hb_trace' = Append(hb_trace, "optimize")
    /\ IF hb_env.optimize
       THEN /\ hb_plan' = [hb_plan EXCEPT !.stage = "optimized"]
            /\ hb_pc' = "find_table"
            /\ hb_query_res' = hb_query_res
       ELSE /\ hb_plan' = hb_plan
            /\ hb_pc' = "send_back"
            /\ hb_query_res' = Err("optimize")
    /\ UNCHANGED <<hb_args, hb_env, hb_collector, hb_ret>>
    /\ UNCHANGED <<plannerVars, pqVars, hcVars, tnVars, rcVars>>

\* a query() that finds the table and leaves its cache slot empty
QueryFindTableNoCache ==
    /\ hb_pc = "find_table"
    /\ hb_trace' = Append(hb_trace, "find_table")
    /\ IF hb_env.find_table
       THEN hb_pc' = "create_physical_plan" /\ hb_query_res' = hb_query_res
       ELSE hb_pc' = "send_back" /\ hb_query_res' = Err("find_table")
    /\ UNCHANGED <<hb_args, hb_env, hb_plan, hb_collector, hb_ret>>
    /\ UNCHANGED <<plannerVars, pqVars, hcVars, tnVars, rcVars>>

\* query(), lines 66-67
QueryFindTable ==
    /\ hb_pc = "find_table"
    /\ IF hb_env.find_table
       THEN /\ hb_trace' = hb_trace \o <<"find_table", "set_cache">>
            /\ hb_plan' = [hb_plan EXCEPT !.cache = @ + 1]
            /\ hb_pc' = "create_physical_plan"
            /\ hb_query_res' = hb_query_res
       ELSE /\ hb_trace' = Append(hb_trace, "find_table")
            /\ hb_plan' = hb_plan
            /\ hb_pc' = "send_back"
            /\ hb_query_res' = Err("find_table")
    /\ UNCHANGED <<hb_args, hb_env, hb_collector, hb_ret>>
    /\ UNCHANGED <<plannerVars, pqVars, hcVars, tnVars, rcVars>>

\* query(), line 68
QueryCreatePhysicalPlan ==
    /\ hb_pc = "create_physical_plan"
    /\ hb_trace' = Append(hb_trace, "create_physical_plan")
    /\ IF hb_env.create_physical_plan
       THEN /\ hb_plan' = [hb_plan EXCEPT !.stage = "physical",
                                          !.partitions = hb_env.partitions]
            /\ hb_pc' = "merge"
            /\ hb_query_res' = hb_query_res
       ELSE /\ hb_plan' = hb_plan
            /\ hb_pc' = "send_back"
            /\ hb_query_res' = Err("create_physical_plan")
    /\ UNCHANGED <<hb_args, hb_env, hb_collector, hb_ret>>
    /\ UNCHANGED <<plannerVars, pqVars, hcVars, tnVars, rcVars>>

\* a query() that executes a plan of several partitions as it is
QueryMergePartitionsNoMerge ==
    /\ hb_pc = "merge"
    /\ IF Len(hb_plan.partitions) = 0
       THEN hb_pc' = "send_back" /\ hb_query_res' = Err("Should have at least one partition")
       ELSE hb_pc' = "collect" /\ hb_query_res' = hb_query_res
    /\ UNCHANGED <<hb_args, hb_env, hb_collector, hb_ret, hb_plan, hb_trace>>
    /\ UNCHANGED <<plannerVars, pqVars, hcVars, tnVars, rcVars>>

\* query(), lines 75-84
QueryMergePartitions ==
    /\ hb_pc = "merge"
    /\ LET count == partition_count(hb_plan) IN
       IF count = 0
       THEN /\ hb_plan' = hb_plan
            /\ hb_trace' = hb_trace
            /\ hb_pc' = "send_back"
            /\ hb_query_res' = Err("Should have at least one partition")
       ELSE IF count = 1
       THEN /\ hb_plan' = hb_plan
            /\ hb_trace' = hb_trace
            /\ hb_pc' = "collect"
            /\ hb_query_res' = hb_query_res
       ELSE /\ hb_plan' = [hb_plan EXCEPT !.stage = "merged"]
            /\ hb_trace' = Append(hb_trace, "MergeExec")
            /\ hb_pc' = "collect"
            /\ hb_query_res' = hb_query_res
    /\ UNCHANGED <<hb_args, hb_env, hb_collector, hb_ret>>
    /\ UNCHANGED <<plannerVars, pqVars, hcVars, tnVars, rcVars>>

\* query(), lines 85-87
QueryCollect ==
    /\ hb_pc = "collect"
    /\ hb_trace' = Append(hb_trace, "collect")
    /\ hb_pc' = "send_back"
    /\ IF hb_env.collect
       THEN \E batches \in collect_results(hb_plan) : hb_query_res' = Ok(batches)
       ELSE hb_query_res' = Err("collect")
    /\ UNCHANGED <<hb_args, hb_env, hb_plan, hb_collector, hb_ret>>
    /\ UNCHANGED <<plannerVars, pqVars, hcVars, tnVars, rcVars>>

\* execute_query, lines 44-56
ExecuteQuerySendBack ==
    /\ hb_pc = "send_back"
    /\ hb_collector' = collector_send_back(hb_collector, hb_args.query_id, hb_query_res,
                                           hb_args.address)
    /\ hb_ret' = Ok("")
    /\ hb_pc' = "done"
    /\ UNCHANGED <<hb_args, hb_env, hb_trace, hb_plan, hb_query_res>>
    /\ UNCHANGED <<plannerVars, pqVars, hcVars, tnVars, rcVars>>

HBeeNext ==
    \/ QueryOptimize
    \/ QueryFindTable
    \/ QueryCreatePhysicalPlan
    \/ QueryMergePartitions
    \/ QueryCollect
    \/ ExecuteQuerySendBack

HBeeSpecInit == HBeeInit /\ PlannerIdle /\ PqIdle /\ HCombIdle /\ TryNewIdle /\ RangeCacheIdle
HBeeSpec == HBeeSpecInit /\ [][HBeeNext]_vars

(***************************************************************************)
(* Properties of the hbee service.                                         *)
(***************************************************************************)
HBeeReturned == hb_pc = "done"

\* every library call of query() succeeds and the plan has a partition
QuerySucceeds ==
    /\ hb_env.optimize /\ hb_env.find_table /\ hb_env.create_physical_plan
    /\ Len(hb_env.partitions) >= 1
    /\ hb_env.collect

\* C3: whatever the outcome of query(), send_back is invoked exactly once,
\* not before execution and collection have finished, with the call's
\* query_id, outcome and address; a successful outcome gives one upload of
\* the collected batches and no FAIL, a failed outcome (optimization, missing
\* leaf, physical planning, zero partitions, collection) one FAIL and no upload.
C3_SendBackOnce ==
    /\ ~HBeeReturned =>
          hb_collector = [calls |-> <<>>, put |-> <<>>, fail |-> <<>>]
    /\ HBeeReturned =>
          /\ hb_collector.calls = <<[query_id |-> hb_args.query_id,
                                     outcome |-> hb_query_res.kind,
                                     address |-> hb_args.address]>>
          /\ hb_query_res.kind = IF QuerySucceeds THEN "Ok" ELSE "Err"
          /\ Len(hb_collector.put) + Len(hb_collector.fail) = 1
          /\ QuerySucceeds =>
                /\ hb_trace[Len(hb_trace)] = "collect"
                /\ hb_collector.put = <<[query_id |-> hb_args.query_id,
                                         batches |-> hb_query_res.val,
                                         address |-> hb_args.address]>>
          /\ ~QuerySucceeds =>
                /\ hb_collector.fail[1].query_id = hb_args.query_id
                /\ hb_collector.fail[1].address = hb_args.address
                /\ hb_collector.fail[1].reason = hb_query_res.val

C3_Witness ==
    /\ HBeeReturned
    /\ hb_env.optimize /\ hb_env.find_table /\ hb_env.create_physical_plan
    /\ Len(hb_env.partitions) = 0
    /\ Len(hb_collector.calls) = 1
    /\ Len(hb_collector.fail) = 1
    /\ hb_collector.put = <<>>

\* the batches of every partition of the physical plan
AllBatches(ps) == UNION {{ps[p][b] : b \in 1..Len(ps[p])} : p \in 1..Len(ps)}
RECURSIVE TotalBatches(_)
TotalBatches(ps) == IF Len(ps) = 0 THEN 0 ELSE Len(ps[1]) + TotalBatches(Tail(ps))
Occurrences(seq, x) == Cardinality({k \in 1..Len(seq) : seq[k] = x})
Planned == hb_env.optimize /\ hb_env.find_table /\ hb_env.create_physical_plan
PastMerge == hb_pc \in {"collect", "send_back", "done"}

\* C13: a physical plan of one partition is executed as it is; one of several
\* partitions is wrapped in a MergeExec, which has one partition, and collect
\* returns every batch of every partition once; one of zero partitions fails
\* with the internal error and nothing is collected.
C13_MergePartitions ==
    (Planned /\ PastMerge) =>
        LET ps == hb_env.partitions
            n == Len(ps)
        IN  /\ n = 0 =>
                  /\ hb_query_res.kind = "Err"
                  /\ hb_query_res.val = "Should have at least one partition"
                  /\ Occurrences(hb_trace, "collect") = 0
                  /\ Occurrences(hb_trace, "MergeExec") = 0
            /\ n = 1 =>
                  /\ hb_plan.stage = "physical"
                  /\ hb_plan.partitions = ps
                  /\ Occurrences(hb_trace, "MergeExec") = 0
                  /\ hb_query_res.kind = "Ok" => hb_query_res.val = ps[1]
            /\ n > 1 =>
                  /\ hb_plan.stage = "merged"
                  /\ partition_count(hb_plan) = 1
                  /\ Occurrences(hb_trace, "MergeExec") = 1
                  /\ hb_query_res.kind = "Ok" =>
                        /\ Len(hb_query_res.val) = TotalBatches(ps)
                        /\ \A x \in AllBatches(ps) : Occurrences(hb_query_res.val, x) = 1
            /\ (n >= 1 /\ hb_pc # "collect") =>
                  hb_query_res.kind = (IF hb_env.collect THEN "Ok" ELSE "Err")

C13_Witness ==
    /\ HBeeReturned /\ QuerySucceeds
    /\ Len(hb_env.partitions) = 3
    /\ Len(hb_query_res.val) = 3
    /\ hb_query_res.val[1] = <<2, 1>>

\* the position of the first call of that name in the trace, 0 when there is none
FirstCall(name) ==
    IF Occurrences(hb_trace, name) = 0 THEN 0
    ELSE CHOOSE k \in 1..Len(hb_trace) :
             hb_trace[k] = name /\ \A m \in 1..(k - 1) : hb_trace[m] # name
Called(name) == Occurrences(hb_trace, name) > 0

\* C20: in every query the range cache is set on the table found in the plan
\* exactly once, after the plan has been optimized and before the physical plan
\* is created or any partition is executed; when no table is found the query
\* fails and neither creates a physical plan nor executes a partition.
C20_CacheSetOnce ==
    /\ Occurrences(hb_trace, "set_cache") <= 1
    /\ hb_plan.cache = Occurrences(hb_trace, "set_cache")
    /\ Called("set_cache") =>
          /\ Called("optimize") /\ FirstCall("optimize") < FirstCall("set_cache")
          /\ FirstCall("find_table") = FirstCall("set_cache") - 1
          /\ hb_plan.stage # "logical"
    /\ \A later \in {"create_physical_plan", "MergeExec", "collect"} :
          Called(later) =>
              (Called("set_cache") /\ FirstCall("set_cache") < FirstCall(later))
    /\ hb_plan.stage \in {"physical", "merged"} => hb_plan.cache = 1
    /\ (hb_pc \in {"create_physical_plan", "merge", "collect"}) => hb_plan.cache = 1
    /\ (HBeeReturned /\ hb_env.optimize /\ hb_env.find_table) => hb_plan.cache = 1
    /\ (hb_env.optimize /\ ~hb_env.find_table /\ hb_pc \in {"send_back", "done"}) =>
          /\ hb_query_res.kind = "Err"
          /\ hb_query_res.val = "find_table"
          /\ hb_plan.cache = 0
          /\ ~Called("create_physical_plan") /\ ~Called("MergeExec") /\ ~Called("collect")
          /\ hb_plan.stage = "optimized"

C20_Witness ==
    /\ HBeeReturned /\ QuerySucceeds
    /\ hb_plan.cache = 1
    /\ hb_trace = <<"optimize", "find_table", "set_cache", "create_physical_plan",
                    "MergeExec", "collect">>

(***************************************************************************)
(* The hcomb: FlightServiceImpl (do_get, do_put, do_action) in front of    *)
(* HCombService (execute_query, add_results, fail) and the result channel  *)
(* that the merge plan of each query reads.                                *)
(***************************************************************************)
ExpectedCounts == 1..MaxExpected
FailReasons == {"r1", "r2"}
FailBodies == [query_id : HCombQueryIds, reason : FailReasons]
ActionTypes == {"Fail", "HealthCheck", "Unknown"}

Response(rpc, status) == [rpc |-> rpc, status |-> status]
NoResponse == Response("", "")

\* the result channel of one query and the items its merge stream has yielded
NewStream(query_id, nb_hbee) ==
    [query_id |-> query_id, expected |-> nb_hbee, queue |-> <<>>, closed |-> FALSE,
     poison |-> "", out |-> <<>>]

drop_entry(registry, query_id) ==
    [x \in DOMAIN registry \ {query_id} |-> registry[x]]

\* HCombService::execute_query: register the query and hand out the stream of
\* its merge plan; a query id that has an entry has had its receiver taken.
execute_query(st, query_id, nb_hbee) ==
    IF query_id \in DOMAIN st.registry
    THEN [res |-> Err("Internal"), st |-> st]
    ELSE [res |-> Ok(Len(st.streams) + 1),
          st |-> [registry |->
                      [x \in DOMAIN st.registry \cup {query_id} |->
                          IF x = query_id
                          THEN [remaining |-> nb_hbee, rx_taken |-> TRUE,
                                stream |-> Len(st.streams) + 1]
                          ELSE st.registry[x]],
                  streams |-> Append(st.streams, NewStream(query_id, nb_hbee))]]

\* HCombService::add_results, one batch of the upload
add_results_batch(st, query_id, batch) ==
    IF query_id \in DOMAIN st.registry
    THEN [st EXCEPT !.streams[st.registry[query_id].stream].queue = Append(@, batch)]
    ELSE st

\* HCombService::add_results, the end of the upload
add_results_end(st, query_id) ==
    IF query_id \in DOMAIN st.registry
    THEN LET e == st.registry[query_id] IN
         IF e.remaining - 1 <= 0
         THEN [registry |-> drop_entry(st.registry, query_id),
               streams |-> [st.streams EXCEPT ![e.stream].closed = TRUE]]
         ELSE [st EXCEPT !.registry[query_id].remaining = e.remaining - 1]
    ELSE st

\* HCombService::fail
fail(st, query_id, error) ==
    IF query_id \in DOMAIN st.registry
    THEN [registry |-> drop_entry(st.registry, query_id),
          streams |-> [st.streams EXCEPT ![st.registry[query_id].stream].poison = error]]
    ELSE st

\* one poll of the merge stream: the error of a poisoned channel first
poll_stream(stream) ==
    IF stream.poison # ""
    THEN [res |-> "Ready", stream |-> [stream EXCEPT !.out = Append(@, Err(stream.poison))]]
    ELSE IF Len(stream.queue) > 0
    THEN [res |-> "Ready",
          stream |-> [stream EXCEPT !.out = Append(@, Ok(Head(stream.queue))),
                                    !.queue = Tail(@)]]
    ELSE IF stream.closed
    THEN [res |-> "Ready", stream |-> [stream EXCEPT !.out = Append(@, NoResult)]]
    ELSE [res |-> "Pending", stream |-> stream]

\* a do_get that registers the query again over the entry it finds
do_get_execute_again(st, query_id, nb_hbee) ==
    execute_query([st EXCEPT !.registry = drop_entry(@, query_id)], query_id, nb_hbee)

\* do_get, lines 94-98: the call of execute_query
do_get_execute(st, query_id, nb_hbee) == execute_query(st, query_id, nb_hbee)

\* a do_put that reports the end of one upload twice
do_put_end_twice(st, cmd) == add_results_end(add_results_end(st, cmd), cmd)

\* do_put, line 137: one add_results call per request; this is its end
do_put_end(st, cmd) == add_results_end(st, cmd)

\* a do_action whose error replaces the one the stream already carries
do_action_fail_last_wins(st, body) ==
    [registry |-> IF body.query_id \in DOMAIN st.registry
                  THEN drop_entry(st.registry, body.query_id) ELSE st.registry,
     streams |-> [s \in 1..Len(st.streams) |->
                     IF st.streams[s].query_id = body.query_id /\ ~st.streams[s].closed
                     THEN [st.streams[s] EXCEPT
                              !.poison = "FAIL action called: " \o body.reason]
                     ELSE st.streams[s]]]

\* a do_action whose error leaves the reason out
do_action_fail_no_reason(st, body) == fail(st, body.query_id, "FAIL action called: ")

\* do_action, lines 149-157
do_action_fail(st, body) ==
    fail(st, body.query_id, "FAIL action called: " \o body.reason)

HCombState == [registry |-> hc_registry, streams |-> hc_streams]

StreamEnded(stream) ==
    Len(stream.out) > 0 /\ stream.out[Len(stream.out)].kind # "Ok"

\* the stream opened last for a query id, 0 when there is none
LatestStream(query_id) ==
    LET ss == {s \in 1..Len(hc_streams) : hc_streams[s].query_id = query_id} IN
    IF ss = {} THEN 0 ELSE CHOOSE s \in ss : \A t \in ss : t <= s

\* history kept for the stream opened last for query_id
SeenUploadEnd(query_id) ==
    [s \in 1..Len(hc_seen) |->
        IF s = LatestStream(query_id)
        THEN [hc_seen[s] EXCEPT !.finished = @ + 1] ELSE hc_seen[s]]

SeenFail(query_id, reason) ==
    [s \in 1..Len(hc_seen) |->
        IF s = LatestStream(query_id)
        THEN [hc_seen[s] EXCEPT !.first_fail = IF @ = "" THEN reason ELSE @,
                                !.refailed = (hc_seen[s].first_fail # "")]
        ELSE hc_seen[s]]

\* an upload whose do_put has returned
DoneUpload == [query_id |-> "", left |-> 0, returned |-> TRUE, done |-> TRUE]

\* the requests, as the handlers parse them; parsed is FALSE when parsing fails
Request(rpc, type, query_id, reason, n, parsed) ==
    [rpc |-> rpc, type |-> type, query_id |-> query_id, reason |-> reason, n |-> n,
     parsed |-> parsed]
NoRequest == Request("", "", "", "", 0, FALSE)

\* one call of a handler to the HCombService
Call(op, query_id, n, error) == [op |-> op, query_id |-> query_id, n |-> n, error |-> error]

HCombInit == HCombIdle

\* do_get, lines 84-103
DoGetFor(ids, counts, max_streams) ==
    \E query_id \in ids, nb_hbee \in counts, ticket_ok \in BOOLEAN :
        /\ IF ~ticket_ok
           THEN /\ hc_resp' = Response("do_get", "InvalidArgument")
                /\ hc_req' = Request("do_get", "", "", "", 0, FALSE)
                /\ hc_calls' = <<>>
                /\ UNCHANGED <<hc_registry, hc_streams, hc_seen>>
           ELSE LET r == do_get_execute(HCombState, query_id, nb_hbee) IN
                /\ hc_req' = Request("do_get", "", query_id, "", nb_hbee, TRUE)
                /\ hc_calls' = <<Call("execute_query", query_id, nb_hbee, "")>>
                /\ IF r.res.kind = "Err"
                   THEN /\ hc_resp' = Response("do_get", "Internal")
                        /\ UNCHANGED <<hc_registry, hc_streams, hc_seen>>
                   ELSE /\ Len(hc_streams) < max_streams
                        /\ hc_registry' = r.st.registry
                        /\ hc_streams' = r.st.streams
                        /\ hc_seen' = Append(hc_seen, [finished |-> 0, first_fail |-> "",
                                                       refailed |-> FALSE])
                        /\ hc_resp' = Response("do_get", "Ok")
        /\ UNCHANGED hc_uploads
        /\ UNCHANGED <<plannerVars, pqVars, hbVars, tnVars, rcVars>>

DoGet == DoGetFor(HCombQueryIds, ExpectedCounts, MaxStreams)

\* do_put, lines 131-137: the request is parsed and add_results is called
DoPutStartFor(ids) ==
    \E query_id \in ids, nb \in 0..MaxUploadBatches, frames_ok \in BOOLEAN :
        /\ IF ~frames_ok
           THEN /\ hc_resp' = Response("do_put", "InvalidArgument")
                /\ hc_req' = Request("do_put", "", "", "", 0, FALSE)
                /\ hc_calls' = <<>>
                /\ hc_uploads' = hc_uploads
           ELSE /\ Len(hc_uploads) < MaxUploads
                /\ hc_uploads' = Append(hc_uploads, [query_id |-> query_id, left |-> nb,
                                                     returned |-> FALSE, done |-> FALSE])
                /\ hc_req' = Request("do_put", "", query_id, "", nb, TRUE)
                /\ hc_calls' = <<Call("add_results", query_id, nb, "")>>
                /\ hc_resp' = NoResponse
        /\ UNCHANGED <<hc_registry, hc_streams, hc_seen>>
        /\ UNCHANGED <<plannerVars, pqVars, hbVars, tnVars, rcVars>>

DoPutStart == DoPutStartFor(HCombQueryIds)

\* do_put, line 137: add_results passes one batch on
DoPutBatch(u) ==
    /\ ~hc_uploads[u].returned
    /\ hc_uploads[u].left > 0
    /\ LET up == hc_uploads[u]
           st == add_results_batch(HCombState, up.query_id, up.query_id)
       IN  /\ hc_registry' = st.registry
           /\ hc_streams' = st.streams
    /\ hc_uploads' = [hc_uploads EXCEPT ![u].left = @ - 1]
    /\ hc_req' = NoRequest
    /\ hc_calls' = <<>>
    /\ hc_resp' = NoResponse
    /\ UNCHANGED hc_seen
    /\ UNCHANGED <<plannerVars, pqVars, hbVars, tnVars, rcVars>>

\* do_put, line 137: the upload ends and add_results returns
DoPutEnd(u) ==
    /\ ~hc_uploads[u].returned
    /\ hc_uploads[u].left = 0
    /\ LET st == do_put_end(HCombState, hc_uploads[u].query_id)
       IN  /\ hc_registry' = st.registry
           /\ hc_streams' = st.streams
    /\ hc_uploads' = [hc_uploads EXCEPT ![u].returned = TRUE]
    /\ hc_seen' = SeenUploadEnd(hc_uploads[u].query_id)
    /\ hc_req' = NoRequest
    /\ hc_calls' = <<>>
    /\ hc_resp' = NoResponse
    /\ UNCHANGED <<plannerVars, pqVars, hbVars, tnVars, rcVars>>

\* a do_put that answers while add_results is still running
do_put_may_respond_early(up) == ~up.done

\* do_put, lines 137-139: the reply follows the .await of add_results
do_put_may_respond(up) == ~up.done /\ up.returned

\* do_put, lines 138-139: the empty response stream is returned
DoPutRespond(u) ==
    /\ do_put_may_respond(hc_uploads[u])
    /\ hc_uploads' = [hc_uploads EXCEPT ![u] = DoneUpload]
    /\ hc_resp' = Response("do_put", "Ok")
    /\ hc_req' = Request("do_put", "", hc_uploads[u].query_id, "", 0, TRUE)
    /\ hc_calls' = <<>>
    /\ UNCHANGED <<hc_registry, hc_streams, hc_seen>>
    /\ UNCHANGED <<plannerVars, pqVars, hbVars, tnVars, rcVars>>

\* do_action, lines 148-160
DoActionFailFor(ids, reasons) ==
    \E body \in [query_id : ids, reason : reasons] :
        /\ LET st == do_action_fail(HCombState, body)
           IN  /\ hc_registry' = st.registry
               /\ hc_streams' = st.streams
        /\ hc_seen' = SeenFail(body.query_id, body.reason)
        /\ hc_resp' = Response("do_action", "Ok")
        /\ hc_req' = Request("do_action", "Fail", body.query_id, body.reason, 0, TRUE)
        /\ hc_calls' = <<Call("fail", body.query_id, 0,
                              "FAIL action called: " \o body.reason)>>
        /\ UNCHANGED hc_uploads
        /\ UNCHANGED <<plannerVars, pqVars, hbVars, tnVars, rcVars>>

DoActionFail == DoActionFailFor(HCombQueryIds, FailReasons)

\* do_action, lines 161-167, and line 150 on a body that is not a Fail document
DoActionOther ==
    \E type \in ActionTypes :
        /\ hc_resp' = Response("do_action",
                               CASE type = "HealthCheck" -> "Ok"
                                 [] type = "Unknown" -> "Unimplemented"
                                 [] type = "Fail" -> "Panic")
        /\ hc_req' = Request("do_action", type, "", "", 0, type # "Fail")
        /\ hc_calls' = <<>>
        /\ UNCHANGED <<hc_registry, hc_streams, hc_uploads, hc_seen>>
        /\ UNCHANGED <<plannerVars, pqVars, hbVars, tnVars, rcVars>>

\* the client of do_get polls the stream of the merge plan
PollStream(s) ==
    /\ ~StreamEnded(hc_streams[s])
    /\ LET r == poll_stream(hc_streams[s]) IN
       /\ r.res = "Ready"
       /\ hc_streams' = [hc_streams EXCEPT ![s] = r.stream]
    /\ hc_req' = NoRequest
    /\ hc_calls' = <<>>
    /\ hc_resp' = NoResponse
    /\ UNCHANGED <<hc_registry, hc_uploads, hc_seen>>
    /\ UNCHANGED <<plannerVars, pqVars, hbVars, tnVars, rcVars>>

HCombNext ==
    \/ DoGet
    \/ DoPutStart
    \/ \E u \in 1..Len(hc_uploads) : DoPutBatch(u)
    \/ \E u \in 1..Len(hc_uploads) : DoPutEnd(u)
    \/ \E u \in 1..Len(hc_uploads) : DoPutRespond(u)
    \/ DoActionFail
    \/ DoActionOther
    \/ \E s \in 1..Len(hc_streams) : PollStream(s)

HCombSpecInit == HCombInit /\ PlannerIdle /\ PqIdle /\ HBeeIdle /\ TryNewIdle /\ RangeCacheIdle
HCombSpec == HCombSpecInit /\ [][HCombNext]_vars

\* The client of do_get keeps polling its stream until the stream ends.
HCombFairSpec ==
    /\ HCombSpec
    /\ \A s \in 1..MaxStreams : WF_vars(s <= Len(hc_streams) /\ PollStream(s))

\* One query id, registered again after its entry has been dropped.
ReuseIds == {"q1"}
ReuseStreams == MaxStreams + 1
ReuseCounts == {1}
ReuseReasons == {"r1"}

HCombReuseNext ==
    \/ DoGetFor(ReuseIds, ReuseCounts, ReuseStreams)
    \/ DoPutStartFor(ReuseIds)
    \/ \E u \in 1..Len(hc_uploads) : DoPutBatch(u)
    \/ \E u \in 1..Len(hc_uploads) : DoPutEnd(u)
    \/ \E u \in 1..Len(hc_uploads) : DoPutRespond(u)
    \/ DoActionFailFor(ReuseIds, ReuseReasons)
    \/ \E s \in 1..Len(hc_streams) : PollStream(s)

HCombReuseSpecInit == HCombInit /\ PlannerIdle /\ PqIdle /\ HBeeIdle /\ TryNewIdle /\ RangeCacheIdle
HCombReuseSpec == HCombReuseSpecInit /\ [][HCombReuseNext]_vars

(***************************************************************************)
(* Properties of the hcomb.                                                *)
(***************************************************************************)
Streams == 1..Len(hc_streams)
LastOut(s) == hc_streams[s].out[Len(hc_streams[s].out)]
EndedNormally(s) == StreamEnded(hc_streams[s]) /\ LastOut(s).kind = "None"
EndedWithError(s) == StreamEnded(hc_streams[s]) /\ LastOut(s).kind = "Err"
UploadsFinished(s) == hc_seen[s].finished >= hc_streams[s].expected
FailArrived(s) == hc_seen[s].first_fail # ""
FailError(reason) == "FAIL action called: " \o reason

\* the stream ends only once N uploads have ended or a Fail has arrived; a normal
\* end needs the N uploads, an error end needs the Fail; one end per stream
C2_Safety ==
    \A s \in Streams :
        /\ StreamEnded(hc_streams[s]) => (UploadsFinished(s) \/ FailArrived(s))
        /\ EndedNormally(s) => UploadsFinished(s)
        /\ EndedWithError(s) =>
              /\ FailArrived(s)
              /\ LastOut(s).val = FailError(hc_seen[s].first_fail)
        /\ \A i \in 1..(Len(hc_streams[s].out) - 1) : hc_streams[s].out[i].kind = "Ok"
        /\ hc_streams[s].closed => hc_seen[s].finished >= hc_streams[s].expected
        /\ ~(hc_streams[s].closed /\ hc_streams[s].poison # "")

\* the channel is closed in the very step in which the N-th upload ends
C2_ClosedAtNth ==
    [][\A s \in Streams :
          (~hc_streams[s].closed /\ hc_streams'[s].closed)
              => (hc_seen'[s].finished = hc_streams[s].expected
                  /\ hc_seen[s].finished = hc_streams[s].expected - 1)]_vars

\* Claim C2: the output stream of a query registered with N expected partitions
\* ends if and only if N uploads for the query have ended or a Fail for it has
\* arrived; it never ends normally after fewer than N ended uploads, and never
\* both ends normally and ends with the Fail error.
C2_StreamEndsIff ==
    /\ []C2_Safety
    /\ C2_ClosedAtNth
    /\ \A s \in 1..MaxStreams :
          (s \in Streams /\ (UploadsFinished(s) \/ FailArrived(s)))
              ~> (s \in Streams /\ StreamEnded(hc_streams[s]))

C2_Witness ==
    \E s \in Streams :
        /\ hc_streams[s].expected = 2
        /\ EndedNormally(s)
        /\ hc_seen[s].finished = 2
        /\ Len(hc_streams[s].out) > 1

C2_WitnessFail ==
    \E s \in Streams :
        /\ hc_streams[s].expected = 2
        /\ hc_seen[s].finished = 1
        /\ EndedWithError(s)

\* a Fail for query_id has arrived since query_id was last registered
AlreadyFailed(query_id) ==
    LatestStream(query_id) # 0 /\ FailArrived(LatestStream(query_id))

\* Claim C4: once a Fail for a query id has arrived, and whatever add_results
\* calls and polls came after it, a further Fail for that id leaves the registry
\* and every stream as they are (the entry is not recreated, the error that the
\* stream yields stays the first one), and the action is answered without error.
C4_FailIdempotent ==
    /\ \A body \in FailBodies :
          AlreadyFailed(body.query_id) =>
              /\ do_action_fail(HCombState, body) = HCombState
              /\ body.query_id \notin DOMAIN do_action_fail(HCombState, body).registry
    /\ \A s \in Streams :
          hc_streams[s].poison # "" =>
              hc_streams[s].poison = FailError(hc_seen[s].first_fail)

C4_Witness ==
    \E s \in Streams :
        /\ hc_seen[s].first_fail = "r1"
        /\ hc_seen[s].refailed
        /\ hc_streams[s].poison = FailError("r1")
        /\ EndedWithError(s)
        /\ Len(hc_streams[s].out) > 1
        /\ hc_resp = Response("do_action", "Ok")
        /\ \E u \in 1..Len(hc_uploads) : hc_uploads[u].done

\* C14: do_action dispatches on the action type.  A Fail action makes one call
\* of fail, for the query id of its body and with an error that embeds the body's
\* reason, and answers with the empty stream; a HealthCheck answers with the empty
\* stream and an action of any other type with the unimplemented status, and
\* neither changes the state of any query.
C14_ActionDispatch ==
    [][hc_req'.rpc = "do_action" =>
          /\ (hc_req'.type = "Fail" /\ hc_req'.parsed) =>
                LET error == "FAIL action called: " \o hc_req'.reason IN
                /\ hc_calls' = <<Call("fail", hc_req'.query_id, 0, error)>>
                /\ HCombState' = fail(HCombState, hc_req'.query_id, error)
                /\ hc_uploads' = hc_uploads
                /\ hc_resp' = Response("do_action", "Ok")
          /\ hc_req'.type = "HealthCheck" =>
                /\ hc_calls' = <<>>
                /\ HCombState' = HCombState
                /\ hc_uploads' = hc_uploads
                /\ hc_resp' = Response("do_action", "Ok")
          /\ hc_req'.type = "Unknown" =>
                /\ hc_calls' = <<>>
                /\ HCombState' = HCombState
                /\ hc_uploads' = hc_uploads
                /\ hc_resp' = Response("do_action", "Unimplemented")]_vars

C14_Witness ==
    /\ hc_req = Request("do_action", "Fail", "q2", "r2", 0, TRUE)
    /\ hc_calls = <<Call("fail", "q2", 0, FailError("r2"))>>
    /\ "q2" \notin DOMAIN hc_registry
    /\ \E s \in Streams :
          /\ hc_streams[s].query_id = "q2"
          /\ hc_streams[s].poison = FailError("r2")
          /\ ~StreamEnded(hc_streams[s])
          /\ Len(hc_streams[s].queue) > 0

\* the upload that the step answers, or that the step starts
Answered(u) == ~hc_uploads[u].done /\ hc_uploads'[u].done
Started(u) == u = Len(hc_uploads) + 1 /\ Len(hc_uploads') = u

C19_Step ==
    [][/\ (hc_req'.rpc = "do_put" /\ ~hc_req'.parsed) =>
              /\ hc_resp' = Response("do_put", "InvalidArgument")
              /\ hc_calls' = <<>>
              /\ HCombState' = HCombState
              /\ hc_uploads' = hc_uploads
       /\ (hc_req'.rpc = "do_put" /\ hc_req'.parsed /\ hc_resp' = NoResponse) =>
              /\ hc_calls' = <<Call("add_results", hc_req'.query_id, hc_req'.n, "")>>
              /\ Started(Len(hc_uploads'))
              /\ hc_uploads'[Len(hc_uploads')] =
                     [query_id |-> hc_req'.query_id, left |-> hc_req'.n,
                      returned |-> FALSE, done |-> FALSE]
              /\ HCombState' = HCombState
       /\ hc_resp' = Response("do_put", "Ok") =>
              /\ hc_calls' = <<>>
              /\ HCombState' = HCombState
              /\ \E u \in 1..Len(hc_uploads) :
                    /\ Answered(u)
                    /\ hc_uploads[u].returned
                    /\ hc_uploads[u].left = 0
                    /\ hc_uploads[u].query_id = hc_req'.query_id
       /\ \A u \in 1..Len(hc_uploads) :
              /\ Answered(u) => hc_resp' = Response("do_put", "Ok")
              /\ hc_uploads[u].done => hc_uploads'[u] = hc_uploads[u]
       /\ (Len(hc_uploads') # Len(hc_uploads)) =>
              (hc_req'.rpc = "do_put" /\ Len(hc_calls') = 1)]_vars

\* add_results has passed on every batch of an upload when it returns
C19_AllBatches ==
    \A u \in 1..Len(hc_uploads) :
        (hc_uploads[u].returned \/ hc_uploads[u].done) => hc_uploads[u].left = 0

\* C19: do_put on frames that do not parse answers with the invalid-argument
\* status, calls add_results not at all and changes no state; on frames that
\* parse it calls add_results once, with the parsed command and all the batches
\* of the upload, and answers with the empty stream only after add_results has
\* returned.
C19_DoPut == C19_Step /\ []C19_AllBatches

C19_Witness ==
    /\ hc_resp = Response("do_put", "Ok")
    /\ hc_req = Request("do_put", "", "q1", "", 0, TRUE)
    /\ \E s \in Streams :
          /\ hc_streams[s].query_id = "q1"
          /\ hc_streams[s].closed
          /\ Len(hc_streams[s].queue) = 1
    /\ \A u \in 1..Len(hc_uploads) : hc_uploads[u].done

StreamsOf(query_id) == {s \in Streams : hc_streams[s].query_id = query_id}
Live(s) == ~hc_streams[s].closed /\ hc_streams[s].poison = ""
\* the batches that the channel of stream s has been given so far
Received(streams, s) ==
    Len(streams[s].queue)
    + Cardinality({k \in 1..Len(streams[s].out) : streams[s].out[k].kind = "Ok"})

C15_OneReceiver ==
    /\ \A q \in DOMAIN hc_registry :
          /\ hc_registry[q].rx_taken
          /\ hc_registry[q].stream \in StreamsOf(q)
          /\ Live(hc_registry[q].stream)
    /\ \A s \in Streams :
          Live(s) => /\ hc_streams[s].query_id \in DOMAIN hc_registry
                     /\ hc_registry[hc_streams[s].query_id].stream = s
    /\ \A q \in HCombQueryIds : Cardinality({s \in StreamsOf(q) : Live(s)}) <= 1

C15_Step ==
    [][/\ (hc_req'.rpc = "do_get" /\ hc_req'.parsed
              /\ hc_req'.query_id \in DOMAIN hc_registry) =>
              /\ hc_resp' = Response("do_get", "Internal")
              /\ HCombState' = HCombState
       /\ (hc_req'.rpc = "do_get" /\ hc_resp' = Response("do_get", "Ok")) =>
              /\ hc_req'.query_id \notin DOMAIN hc_registry
              /\ Len(hc_streams') = Len(hc_streams) + 1
              /\ Received(hc_streams', Len(hc_streams')) = 0
              /\ \A s \in Streams : hc_streams'[s] = hc_streams[s]
       /\ \A s \in Streams :
              Received(hc_streams', s) > Received(hc_streams, s) =>
                  /\ hc_streams[s].query_id \in DOMAIN hc_registry
                  /\ hc_registry[hc_streams[s].query_id].stream = s
                  /\ \E u \in 1..Len(hc_uploads) :
                        /\ hc_uploads[u].query_id = hc_streams[s].query_id
                        /\ hc_uploads'[u].left = hc_uploads[u].left - 1]_vars

IsPrefix(a, b) == Len(a) <= Len(b) /\ \A i \in 1..Len(a) : a[i] = b[i]

\* everything the reader yields for the file, the end sentinel included
FileItems == IF Len(file) > 0 /\ file[Len(file)].kind = "err"
             THEN file ELSE Append(file, Sentinel)

\* C5: the items the consumer has received are always a prefix of the items
\* the worker has sent, which are a prefix of the file's items in file order:
\* the channel drops, duplicates and reorders nothing.
C5_FileOrder ==
    /\ IsPrefix(recvd, sent)
    /\ IsPrefix(sent, FileItems)
    /\ \A i \in 1..Len(recvd) : recvd[i].kind = "batch" => recvd[i].id = i

C5_Witness ==
    /\ Len(recvd) = 4
    /\ recvd[1] = Batch(1) /\ recvd[2] = Batch(2) /\ recvd[3] = Batch(3)
    /\ recvd[4] = Sentinel

\* C6: the channel never holds more than 2 undelivered items; a worker with a
\* further item to send cannot complete its send while 2 are undelivered and
\* the stream is alive, so it is never more than 2 sent items ahead.
C6_Backpressure ==
    /\ Len(chan) <= 2
    /\ rx_alive => Len(sent) - Len(recvd) = Len(chan)
    /\ Len(sent) - Len(recvd) <= 2 \/ ~rx_alive
    /\ (wpc = "send" /\ rx_alive /\ Len(chan) = 2) => ~ENABLED WorkerSend

C6_Witness ==
    /\ wpc = "send" /\ rx_alive /\ Len(chan) = 2
    /\ pending = Batch(3)
    /\ Len(sent) = 2 /\ Len(recvd) = 0

StreamDone ==
    \/ ~rx_alive
    \/ \E i \in 1..Len(yielded) : yielded[i].kind = "end"

\* C7: a worker that leaves at end of file has sent the end sentinel, one that
\* leaves on a read error has sent that error, one that leaves on a failed
\* send has lost its stream; and once the stream has been dropped or has
\* yielded end-of-stream the worker exits.
C7_WorkerExits ==
    /\ [](exit_reason = "eof" => (Len(sent) > 0 /\ sent[Len(sent)] = Sentinel))
    /\ [](exit_reason = "error" => (Len(sent) > 0 /\ sent[Len(sent)] = ReadError))
    /\ [](exit_reason = "send_failed" => ~rx_alive)
    /\ (StreamDone ~> wpc = "exited")

C7_Witness ==
    /\ wpc = "exited" /\ exit_reason = "send_failed"
    /\ ~rx_alive /\ Len(sent) = 2 /\ recvd = <<>>

=============================================================================
